---------------------------- MODULE Spec2Model ----------------------------
(***************************************************************************)
(* The VibeLearning hooks: the activity recorder (hooks/track_activity.py) *)
(* and the trigger evaluator (hooks/check_learning.py), two short-lived    *)
(* processes that share one JSON tracker file.  Each action below is one   *)
(* whole invocation of one hook: read of the event, load of the tracker    *)
(* file, update, save, output and exit.                                    *)
(***************************************************************************)
EXTENDS Integers, Sequences, FiniteSets, TLC

VARIABLES
  file,          \* the tracker file: [kind, data]
  writable,      \* whether open(TRACKER_FILE, 'w') succeeds
  clock,         \* the latest reading of int(time.time() * 1000)
  pre,           \* the tracker file as the last invocation found it
  last,          \* the last invocation: [op, decision, status, wrote, hint, now,
                 \*   ev_kind, tool_name, owed (debt as the invocation began),
                 \*   tool_input and concept (of a recorder run that got to line 62)]
  prevBlockAt,   \* history: clock reading of the Block before the latest one (-1: none)
  lastBlockAt,   \* history: clock reading of the latest Block (-1: none)
  sigSinceBlock, \* history: significant events recorded since the latest Block
  debt,          \* history: an evaluation met the threshold and was held back by the cooldown
  running,       \* per hook process: what it has loaded and not yet saved
  overlapped     \* history: a hook process began while another was between load and save

vars == <<file, writable, clock, pre, last, prevBlockAt, lastBlockAt, sigSinceBlock, debt,
          running, overlapped>>

-----------------------------------------------------------------------------
(* Bounds of the model *)

\* the recorder is not run once tool_count has reached this value
MaxCount == 4
\* the clock's first reading, in ms (a wall clock is far past one cooldown)
T0 == 1000000
\* number of cooldown lengths the clock may advance past T0
MaxCooldowns == 1
\* number of events on the topics of ConceptEvents in one run
MaxEvents == 5

-----------------------------------------------------------------------------
(* Program constants *)

SIGNIFICANT_TOOLS == {"Edit", "Write", "Bash"}

TOOL_THRESHOLD == 3

COOLDOWN_MS == 15 * 60 * 1000

\* extract_concept's "return None"; falsy in "if concept:" as "" is, and never
\* a value of the patterns table
None == ""

FALLBACK_HINT == "the task you just completed"

\* Faulty variant: senior_enabled starts out false
Default_SeniorOff ==
  [tool_count |-> 0, last_learning_prompt |-> 0, senior_enabled |-> FALSE,
   after_enabled |-> TRUE, concepts |-> <<>>]

\* the record both load_tracker functions return when there is no usable file
Default ==
  [tool_count |-> 0, last_learning_prompt |-> 0, senior_enabled |-> TRUE,
   after_enabled |-> TRUE, concepts |-> <<>>]

-----------------------------------------------------------------------------
(* The tracker file *)

\* kind: "missing" (no file), "corrupt" (json.load raises), "nonrecord"
\* (valid JSON that is no object), "record" (a JSON object, in data)
MissingFile == [kind |-> "missing", data |-> Default]
CorruptFile == [kind |-> "corrupt", data |-> Default]
NonRecordFile == [kind |-> "nonrecord", data |-> Default]
RecordFile(tracker) == [kind |-> "record", data |-> tracker]

\* json.load's result is a dict (a non-dict has no .get: AttributeError)
IsDict(f) == f.kind # "nonrecord"

\* check_learning.load_tracker: the file's object, or the defaults when the
\* file is missing or unparseable
load_tracker_check(f) == IF f.kind = "record" THEN f.data ELSE Default

\* track_activity.load_tracker: the same after ensure_dir()
load_tracker_track(f) == IF f.kind = "record" THEN f.data ELSE Default

\* save_tracker: json.dump of the whole record over the file
save_tracker(tracker) == RecordFile(tracker)

-----------------------------------------------------------------------------
(* extract_concept *)

\* str.lower() on one character
LowerChar(c) ==
  CASE c = "A" -> "a" [] c = "B" -> "b" [] c = "C" -> "c" [] c = "D" -> "d"
    [] c = "E" -> "e" [] c = "F" -> "f" [] c = "G" -> "g" [] c = "H" -> "h"
    [] c = "I" -> "i" [] c = "J" -> "j" [] c = "K" -> "k" [] c = "L" -> "l"
    [] c = "M" -> "m" [] c = "N" -> "n" [] c = "O" -> "o" [] c = "P" -> "p"
    [] c = "Q" -> "q" [] c = "R" -> "r" [] c = "S" -> "s" [] c = "T" -> "t"
    [] c = "U" -> "u" [] c = "V" -> "v" [] c = "W" -> "w" [] c = "X" -> "x"
    [] c = "Y" -> "y" [] c = "Z" -> "z" [] OTHER -> c

RECURSIVE Lower(_)
Lower(s) ==
  IF s = "" THEN "" ELSE LowerChar(SubSeq(s, 1, 1)) \o Lower(SubSeq(s, 2, Len(s)))

\* Python's "kw in s" on strings
Contains(s, kw) ==
  \E i \in 1..(Len(s) - Len(kw) + 1) : SubSeq(s, i, i + Len(kw) - 1) = kw

patterns ==
  << [keywords |-> <<"test", "spec">>, concept |-> "unit-testing"],
     [keywords |-> <<"auth", "login", "jwt">>, concept |-> "authentication"],
     [keywords |-> <<"api", "endpoint", "route">>, concept |-> "api-design"],
     [keywords |-> <<"cache", "redis">>, concept |-> "caching"],
     [keywords |-> <<".tsx", ".jsx">>, concept |-> "react-components"],
     [keywords |-> <<"db", "database", "prisma">>, concept |-> "database"] >>

\* "kw.lower() in file_path.lower()" for some kw of the i-th pattern
PatternMatches(i, file_path) ==
  \E k \in 1..Len(patterns[i].keywords) :
    Contains(Lower(file_path), Lower(patterns[i].keywords[k]))

Matching(file_path) == {i \in 1..Len(patterns) : PatternMatches(i, file_path)}

\* Faulty variant: the last matching pattern wins, not the first
extract_concept_LastMatch(tool_name, tool_input) ==
  LET file_path == IF tool_input.file_path # "" THEN tool_input.file_path
                   ELSE tool_input.path
      command == tool_input.command
      m == Matching(file_path)
  IN  IF m # {} THEN patterns[CHOOSE i \in m : \A j \in m : i >= j].concept
      ELSE IF Contains(command, "git") THEN "git-workflow"
      ELSE IF Contains(command, "docker") THEN "containerization"
      ELSE None

extract_concept(tool_name, tool_input) ==
  LET file_path == IF tool_input.file_path # "" THEN tool_input.file_path
                   ELSE tool_input.path
      command == tool_input.command
      m == Matching(file_path)
  IN  IF m # {} THEN patterns[CHOOSE i \in m : \A j \in m : i <= j].concept
      ELSE IF Contains(command, "git") THEN "git-workflow"
      ELSE IF Contains(command, "docker") THEN "containerization"
      ELSE None

-----------------------------------------------------------------------------
(* The inputs of an invocation *)

\* tool_input objects; an absent key reads as "" (dict.get's default)
ToolInputs ==
  { [file_path |-> "/src/auth/login.ts", path |-> "", command |-> ""],
    [file_path |-> "", path |-> "src/API/routes/user.tsx", command |-> ""],
    [file_path |-> "README.md", path |-> "", command |-> "ls"] }

\* "" is an event without a tool_name key (data.get("tool_name", ""))
ToolNames == {"Edit", "Write", "Bash", "Read", ""}

\* what json.load(sys.stdin) meets: text that is no JSON ("malformed"), JSON
\* that is no object ("nonobject"), or an event object
NoInput == [file_path |-> "", path |-> "", command |-> ""]

Events ==
  { [kind |-> "malformed", tool_name |-> "", tool_input |-> NoInput],
    [kind |-> "nonobject", tool_name |-> "", tool_input |-> NoInput] }
  \cup [kind : {"object"}, tool_name : ToolNames, tool_input : ToolInputs]

\* Events for extract_concept: a path of two segments, given as file_path (with a
\* path key beside it that must be ignored) or as path alone, and a command
Segments ==
  {"", "Tests", "jwt", "route", "Redis", "user.tsx", "prisma", "auth_test.py", "main.py"}

Commands ==
  {"", "ls -la", "git commit -m x", "docker ps", "docker build github.com/x", "GIT status"}

TopicCases ==
  [s1 : Segments, s2 : Segments, via : {"file_path", "path"}, command : Commands]

CasePath(c) == "/" \o c.s1 \o "/" \o c.s2

CaseInput(c) ==
  IF c.via = "file_path"
  THEN [file_path |-> CasePath(c), path |-> "jwt.ts", command |-> c.command]
  ELSE [file_path |-> "", path |-> CasePath(c), command |-> c.command]

CaseEvent(c) ==
  [kind |-> "object", tool_name |-> IF c.command = "" THEN "Edit" ELSE "Bash",
   tool_input |-> CaseInput(c)]

TopicEvents == {CaseEvent(c) : c \in TopicCases}

\* how far the wall clock has moved on when the evaluator reads it
Delays == {0, COOLDOWN_MS - 1, COOLDOWN_MS}

MaxClock == T0 + MaxCooldowns * COOLDOWN_MS

-----------------------------------------------------------------------------
(* The recorder: track_activity.main *)

\* Faulty variant: "Write" left out of the list
Significant_NoWrite(tool_name) == tool_name \in {"Edit", "Bash"}

\* Faulty variant: every named tool counts
Significant_AnyNamed(tool_name) == tool_name # ""

\* if tool_name not in SIGNIFICANT_TOOLS: sys.exit(0)
Significant(tool_name) == tool_name \in SIGNIFICANT_TOOLS

\* tracker["tool_count"] = tracker.get("tool_count", 0) + 1
CountEvent(tracker) == [tracker EXCEPT !.tool_count = @ + 1]

\* Faulty variant: no eviction after the append
AppendConcept_NoEvict(concepts, concept) == Append(concepts, concept)

\* Faulty variant: pop() for pop(0), the newest entry is dropped
AppendConcept_EvictNewest(concepts, concept) ==
  LET appended == Append(concepts, concept)
  IN  IF Len(appended) > 10 THEN SubSeq(appended, 1, 10) ELSE appended

\* Faulty variant: the oldest entry is dropped once eight are listed
AppendConcept_EvictEarly(concepts, concept) ==
  LET appended == Append(concepts, concept)
  IN  IF Len(appended) > 7 THEN Tail(appended) ELSE appended

\* concepts.append(concept); if len(concepts) > 10: concepts.pop(0)
AppendConcept(concepts, concept) ==
  LET appended == Append(concepts, concept)
  IN  IF Len(appended) > 10 THEN Tail(appended) ELSE appended

\* Faulty variant: a concept already listed is moved to the most recent place
NoteConcept_MoveToEnd(tracker, concept) ==
  IF concept = None THEN tracker
  ELSE LET others == SelectSeq(tracker.concepts, LAMBDA c : c # concept)
       IN  [tracker EXCEPT !.concepts = AppendConcept(others, concept)]

\* the "if concept:" block
NoteConcept(tracker, concept) ==
  IF concept # None /\ ~(\E i \in 1..Len(tracker.concepts) : tracker.concepts[i] = concept)
  THEN [tracker EXCEPT !.concepts = AppendConcept(@, concept)]
  ELSE tracker

\* one event for each topic extract_concept can return
ConceptCases ==
  {c \in TopicCases :
     /\ c.via = "file_path" /\ c.s2 = "main.py"
     /\ IF c.command = ""
        THEN c.s1 \in {"Tests", "jwt", "route", "Redis", "user.tsx", "prisma"}
        ELSE c.s1 = "main.py" /\ c.command \in {"git commit -m x", "docker ps"}}

ConceptEvents == {CaseEvent(c) : c \in ConceptCases}

\* concept = extract_concept(tool_name, data.get("tool_input", {})), worked out
\* once for each event of the model
Extracted ==
  {<<ev, extract_concept(ev.tool_name, ev.tool_input)>> : ev \in Events \cup ConceptEvents}

ConceptOf(ev) ==
  IF ev \in Events \cup ConceptEvents THEN (CHOOSE p \in Extracted : p[1] = ev)[2]
  ELSE extract_concept(ev.tool_name, ev.tool_input)

\* the record main() hands to save_tracker
Recorded(tracker, ev) == NoteConcept(CountEvent(tracker), ConceptOf(ev))

\* Faulty variant: no try/except around json.load(sys.stdin)
RecorderRun_NoCatch(f, w, ev) ==
  LET exit(st, r) == [file |-> f, status |-> st, wrote |-> FALSE, reached |-> r]
  IN  IF ev.kind = "malformed" THEN exit(1, FALSE)
      ELSE IF ev.kind = "nonobject" THEN exit(1, FALSE)
      ELSE IF ~Significant(ev.tool_name) THEN exit(0, FALSE)
      ELSE IF ~IsDict(f) THEN exit(1, FALSE)
      ELSE IF ~w THEN exit(1, TRUE)
      ELSE [file |-> save_tracker(Recorded(load_tracker_track(f), ev)),
            status |-> 0, wrote |-> TRUE, reached |-> TRUE]

\* how one invocation ends: [file, status, wrote, reached (line 62 was run)]
RecorderRun(f, w, ev) ==
  LET exit(st, r) == [file |-> f, status |-> st, wrote |-> FALSE, reached |-> r]
  IN  IF ev.kind = "malformed" THEN exit(0, FALSE)                 \* except: sys.exit(0)
      ELSE IF ev.kind = "nonobject" THEN exit(1, FALSE)            \* data.get raises
      ELSE IF ~Significant(ev.tool_name) THEN exit(0, FALSE)       \* sys.exit(0)
      ELSE IF ~IsDict(f) THEN exit(1, FALSE)                       \* tracker.get raises
      ELSE IF ~w THEN exit(1, TRUE)                                \* open(.., 'w') raises
      ELSE [file |-> save_tracker(Recorded(load_tracker_track(f), ev)),
            status |-> 0, wrote |-> TRUE, reached |-> TRUE]

\* one invocation of the recorder on event ev
RecorderStep(ev) ==
  LET r == RecorderRun(file, writable, ev)
      \* history: the event is a significant tool event
      counted == ev.kind = "object" /\ ev.tool_name \in {"Edit", "Write", "Bash"}
  IN  /\ file' = r.file
      /\ pre' = file
      /\ last' = [op |-> "record", decision |-> "none", status |-> r.status,
                  wrote |-> r.wrote, hint |-> "", now |-> clock,
                  ev_kind |-> ev.kind, tool_name |-> ev.tool_name, owed |-> debt,
                  tool_input |-> IF r.reached THEN ev.tool_input ELSE NoInput,
                  concept |-> IF r.reached THEN ConceptOf(ev) ELSE None]
      /\ sigSinceBlock' = IF counted THEN sigSinceBlock + 1 ELSE sigSinceBlock
      /\ UNCHANGED <<writable, clock, prevBlockAt, lastBlockAt, debt, running, overlapped>>

Recorder ==
  \E ev \in Events :
    /\ load_tracker_track(file).tool_count < MaxCount
    /\ sigSinceBlock < MaxCount
    /\ RecorderStep(ev)

-----------------------------------------------------------------------------
(* The evaluator: check_learning.main *)

\* Faulty variant: the after-mode switch is not consulted
BelowThreshold_IgnoresMode(tracker) == tracker.tool_count < TOOL_THRESHOLD

\* if not after_enabled or tool_count < TOOL_THRESHOLD: sys.exit(0)
BelowThreshold(tracker) ==
  ~tracker.after_enabled \/ tracker.tool_count < TOOL_THRESHOLD

\* Faulty variant: "<=" for "<"
InCooldown_Inclusive(tracker, now) == now - tracker.last_learning_prompt <= COOLDOWN_MS

\* Faulty variant: the cooldown ends one ms early
InCooldown_Short(tracker, now) == now - tracker.last_learning_prompt < COOLDOWN_MS - 1

\* Faulty variant: the operands of the subtraction swapped
InCooldown_Swapped(tracker, now) == tracker.last_learning_prompt - now < COOLDOWN_MS

\* if now - last_prompt < COOLDOWN_MS: sys.exit(0)
InCooldown(tracker, now) == now - tracker.last_learning_prompt < COOLDOWN_MS

\* Faulty variant: concepts[0] for concepts[-1]
concept_hint_Oldest(tracker) ==
  IF Len(tracker.concepts) > 0 THEN tracker.concepts[1] ELSE FALLBACK_HINT

\* concept_hint = concepts[-1] if concepts else "the task you just completed"
concept_hint(tracker) ==
  IF Len(tracker.concepts) > 0 THEN tracker.concepts[Len(tracker.concepts)]
  ELSE FALLBACK_HINT

\* Faulty variant: last_learning_prompt is not updated
Prompted_KeepsStamp(tracker, now) == [tracker EXCEPT !.tool_count = 0]

\* Faulty variant: tool_count is not reset
Prompted_KeepsCount(tracker, now) == [tracker EXCEPT !.last_learning_prompt = now]

\* Faulty variant: the record is rebuilt from the defaults
Prompted_FromDefaults(tracker, now) == [Default EXCEPT !.last_learning_prompt = now]

\* tracker["tool_count"] = 0; tracker["last_learning_prompt"] = now
Prompted(tracker, now) ==
  [tracker EXCEPT !.tool_count = 0, !.last_learning_prompt = now]

\* Faulty variant: the cooldown branch resets tool_count before it exits
EvaluatorRun_ResetsInCooldown(f, w, now) ==
  LET tracker == load_tracker_check(f)
      quiet(st) == [file |-> f, decision |-> IF st = 0 THEN "allow" ELSE "none",
                    status |-> st, wrote |-> FALSE, hint |-> ""]
  IN  IF ~IsDict(f) THEN quiet(1)
      ELSE IF BelowThreshold(tracker) THEN quiet(0)
      ELSE IF InCooldown(tracker, now)
      THEN IF ~w THEN quiet(1)
           ELSE [file |-> save_tracker([tracker EXCEPT !.tool_count = 0]),
                 decision |-> "allow", status |-> 0, wrote |-> TRUE, hint |-> ""]
      ELSE IF ~w THEN quiet(1)
      ELSE [file |-> save_tracker(Prompted(tracker, now)), decision |-> "block",
            status |-> 0, wrote |-> TRUE, hint |-> concept_hint(tracker)]

\* how one invocation ends: [file, decision, status, wrote, hint]
EvaluatorRun(f, w, now) ==
  LET tracker == load_tracker_check(f)
      quiet(st) == [file |-> f, decision |-> IF st = 0 THEN "allow" ELSE "none",
                    status |-> st, wrote |-> FALSE, hint |-> ""]
  IN  IF ~IsDict(f) THEN quiet(1)                                  \* tracker.get raises
      ELSE IF BelowThreshold(tracker) THEN quiet(0)                \* sys.exit(0)
      ELSE IF InCooldown(tracker, now) THEN quiet(0)               \* sys.exit(0)
      ELSE IF ~w THEN quiet(1)                                     \* open(.., 'w') raises
      ELSE [file |-> save_tracker(Prompted(tracker, now)), decision |-> "block",
            status |-> 0, wrote |-> TRUE, hint |-> concept_hint(tracker)]

Evaluator ==
  \E d \in Delays :
    LET now == clock + d
        r == EvaluatorRun(file, writable, now)
        tracker == load_tracker_check(file)
        \* history: the threshold is met and the cooldown alone holds the prompt back
        held == /\ r.decision = "allow"
                /\ tracker.after_enabled
                /\ tracker.tool_count >= 3
                /\ now - tracker.last_learning_prompt < 900000
    IN  /\ now <= MaxClock
        /\ clock' = now
        /\ file' = r.file
        /\ pre' = file
        /\ last' = [op |-> "evaluate", decision |-> r.decision, status |-> r.status,
                    wrote |-> r.wrote, hint |-> r.hint, now |-> now,
                    ev_kind |-> "", tool_name |-> "", owed |-> debt,
                    tool_input |-> NoInput, concept |-> None]
        /\ prevBlockAt' = IF r.decision = "block" THEN lastBlockAt ELSE prevBlockAt
        /\ lastBlockAt' = IF r.decision = "block" THEN now ELSE lastBlockAt
        /\ sigSinceBlock' = IF r.decision = "block" THEN 0 ELSE sigSinceBlock
        /\ debt' = IF r.decision = "block" THEN FALSE
                   ELSE IF held THEN TRUE ELSE debt
        /\ UNCHANGED <<writable, running, overlapped>>

-----------------------------------------------------------------------------
(* Specifications *)

\* ten identifiers that extract_concept does not produce
TenConcepts == <<"c0", "c1", "c2", "c3", "c4", "c5", "c6", "c7", "c8", "c9">>

\* last_learning_prompt values a hook may find: never prompted, prompted exactly
\* one cooldown ago, one ms less than that, and a time ahead of the clock (written
\* before the wall clock was set back)
InitPrompts == {0, T0 - COOLDOWN_MS, T0 - COOLDOWN_MS + 1, T0 + COOLDOWN_MS}

\* well-formed tracker records a hook may find in the file
InitTrackers ==
  [tool_count : 0..MaxCount,
   last_learning_prompt : InitPrompts,
   senior_enabled : BOOLEAN,
   after_enabled : BOOLEAN,
   concepts : {<<>>, TenConcepts}]

\* hook processes that may be alive at the same time
Processes == {1, 2}

\* a process that is not between its load and its save
Idle == [pc |-> "idle", seen |-> MissingFile, ev |-> [kind |-> "malformed", tool_name |-> "", tool_input |-> NoInput]]

InitRest ==
  /\ running = [p \in Processes |-> Idle]
  /\ overlapped = FALSE
  /\ clock = T0
  /\ pre = file
  /\ last = [op |-> "init", decision |-> "none", status |-> 0, wrote |-> FALSE,
             hint |-> "", now |-> T0, ev_kind |-> "", tool_name |-> "", owed |-> FALSE,
             tool_input |-> NoInput, concept |-> None]
  /\ prevBlockAt = -1
  /\ lastBlockAt = -1
  /\ sigSinceBlock = 0
  /\ debt = FALSE

\* a readable, writable tracker file holding a well-formed record, or no file yet
Init ==
  /\ file \in {MissingFile} \cup {RecordFile(t) : t \in InitTrackers}
  /\ writable = TRUE
  /\ InitRest

\* the first run of the hooks: no file, or a file holding the defaults
InitDefault ==
  /\ file \in {MissingFile, RecordFile(Default)}
  /\ writable = TRUE
  /\ InitRest

\* one recorder invocation on an event of TopicEvents, on no file or on a record
\* that lists a topic already
RecordTopic ==
  /\ last.op = "init"
  /\ \E ev \in TopicEvents : RecorderStep(ev)

InitTopic ==
  /\ file \in {MissingFile, RecordFile([Default EXCEPT !.concepts = <<"api-design">>])}
  /\ writable = TRUE
  /\ InitRest

\* any tracker file a hook can meet: none, unparseable text, JSON that is no
\* object, the defaults, or a record that is due for a prompt; writable or not
InitFault ==
  /\ file \in {MissingFile, CorruptFile, NonRecordFile, RecordFile(Default),
               RecordFile([Default EXCEPT !.tool_count = TOOL_THRESHOLD])}
  /\ writable \in BOOLEAN
  /\ InitRest

Next == Recorder \/ Evaluator

Spec == Init /\ [][Next]_vars

SpecDefault == InitDefault /\ [][Next]_vars

SpecTopic == InitTopic /\ [][RecordTopic]_vars

SpecFault == InitFault /\ [][Next]_vars

\* recorder invocations on the events of ConceptEvents, a bounded number of them
\* and none after a Block
RecordConcept ==
  /\ sigSinceBlock < MaxEvents
  /\ lastBlockAt = -1
  /\ \E ev \in ConceptEvents : RecorderStep(ev)

\* the defaults, or the record left by four events on four topics and a Block
\* one cooldown ago
InitConcepts ==
  /\ file \in {RecordFile(Default),
               RecordFile([Default EXCEPT
                             !.last_learning_prompt = T0 - COOLDOWN_MS,
                             !.concepts = <<"unit-testing", "authentication",
                                            "api-design", "caching">>])}
  /\ writable = TRUE
  /\ InitRest

NextConcepts == RecordConcept \/ Evaluator

SpecConcepts == InitConcepts /\ [][NextConcepts]_vars

-----------------------------------------------------------------------------
\* Hook processes that overlap: each one loads the tracker file and saves the
\* whole file later, with no lock; other processes may run in between.

\* the events the overlapping recorders are given
OverlapEvents ==
  {ev \in Events : /\ ev.kind = "object"
                   /\ ev.tool_name \in {"Edit", "Read"}
                   /\ ev.tool_input.file_path = "/src/auth/login.ts"}

\* history: another process is between its load and its save
OthersRunning(p) == \E q \in Processes \ {p} : running[q].pc # "idle"

\* track_activity.py up to load_tracker()
StartRecorder(p) ==
  \E ev \in OverlapEvents :
    /\ running[p].pc = "idle"
    /\ load_tracker_track(file).tool_count < MaxCount
    /\ sigSinceBlock < MaxCount
    /\ running' = [running EXCEPT ![p] = [pc |-> "record", seen |-> file, ev |-> ev]]
    /\ overlapped' = IF OthersRunning(p) THEN TRUE ELSE overlapped
    /\ UNCHANGED <<file, writable, clock, pre, last, prevBlockAt, lastBlockAt,
                   sigSinceBlock, debt>>

\* track_activity.py from the update of the loaded tracker to save_tracker()
FinishRecorder(p) ==
  LET ev == running[p].ev
      r == RecorderRun(running[p].seen, writable, ev)
      counted == ev.kind = "object" /\ ev.tool_name \in {"Edit", "Write", "Bash"}
  IN  /\ running[p].pc = "record"
      /\ running' = [running EXCEPT ![p] = Idle]
      /\ file' = IF r.wrote THEN r.file ELSE file
      /\ pre' = running[p].seen
      /\ last' = [op |-> "record", decision |-> "none", status |-> r.status,
                  wrote |-> r.wrote, hint |-> "", now |-> clock,
                  ev_kind |-> ev.kind, tool_name |-> ev.tool_name, owed |-> debt,
                  tool_input |-> IF r.reached THEN ev.tool_input ELSE NoInput,
                  concept |-> IF r.reached THEN ConceptOf(ev) ELSE None]
      /\ sigSinceBlock' = IF counted THEN sigSinceBlock + 1 ELSE sigSinceBlock
      /\ UNCHANGED <<writable, clock, prevBlockAt, lastBlockAt, debt, overlapped>>

\* check_learning.py up to load_tracker()
StartEvaluator(p) ==
  /\ running[p].pc = "idle"
  /\ running' = [running EXCEPT ![p] = [pc |-> "evaluate", seen |-> file, ev |-> Idle.ev]]
  /\ overlapped' = IF OthersRunning(p) THEN TRUE ELSE overlapped
  /\ UNCHANGED <<file, writable, clock, pre, last, prevBlockAt, lastBlockAt,
                 sigSinceBlock, debt>>

\* check_learning.py from the tests on the loaded tracker to save_tracker() and print
FinishEvaluator(p) ==
  \E d \in Delays :
    LET now == clock + d
        r == EvaluatorRun(running[p].seen, writable, now)
    IN  /\ running[p].pc = "evaluate"
        /\ now <= MaxClock
        /\ running' = [running EXCEPT ![p] = Idle]
        /\ clock' = now
        /\ file' = IF r.wrote THEN r.file ELSE file
        /\ pre' = running[p].seen
        /\ last' = [op |-> "evaluate", decision |-> r.decision, status |-> r.status,
                    wrote |-> r.wrote, hint |-> r.hint, now |-> now,
                    ev_kind |-> "", tool_name |-> "", owed |-> debt,
                    tool_input |-> NoInput, concept |-> None]
        /\ prevBlockAt' = IF r.decision = "block" THEN lastBlockAt ELSE prevBlockAt
        /\ lastBlockAt' = IF r.decision = "block" THEN now ELSE lastBlockAt
        /\ sigSinceBlock' = IF r.decision = "block" THEN 0 ELSE sigSinceBlock
        /\ UNCHANGED <<writable, debt, overlapped>>

NextOverlap ==
  \E p \in Processes :
    \/ StartRecorder(p)
    \/ FinishRecorder(p)
    \/ StartEvaluator(p)
    \/ FinishEvaluator(p)

SpecOverlap == InitDefault /\ [][NextOverlap]_vars

-----------------------------------------------------------------------------
(* Properties *)

\* the TrackerState a file stands for (the defaults when there is no record)
TrackerOf(f) == IF f.kind = "record" THEN f.data ELSE Default

\* the state the last invocation found, and the state it left
Found == TrackerOf(pre)
Kept == TrackerOf(file)

Evaluated == last.op = "evaluate"
Blocked == last.op = "evaluate" /\ last.decision = "block"
Allowed == last.op = "evaluate" /\ last.decision = "allow" /\ last.status = 0
Elapsed == last.now - Found.last_learning_prompt

NoDuplicates(seq) == \A i, j \in 1..Len(seq) : i # j => seq[i] # seq[j]

\* C1 as stated: an evaluation that finds toolCount >= 3 and at least 900,000 ms
\* since the last prompt returns Block and leaves toolCount = 0 and
\* lastLearningPromptAt = now, whatever afterModeEnabled is.
C1_AnyMode ==
  (Evaluated /\ Found.tool_count >= 3 /\ Elapsed >= 900000)
    => (Blocked /\ Kept.tool_count = 0 /\ Kept.last_learning_prompt = last.now)

\* C1 amended: an evaluation that finds afterModeEnabled true, toolCount >= 3 and
\* at least 900,000 ms since the last prompt (lastLearningPromptAt = 0 included)
\* returns Block, and the persisted state then has toolCount = 0 and
\* lastLearningPromptAt = now.
C1_BlockWhenDue ==
  (Evaluated /\ Found.after_enabled /\ Found.tool_count >= 3 /\ Elapsed >= 900000)
    => (Blocked /\ last.wrote /\ file.kind = "record"
        /\ Kept.tool_count = 0 /\ Kept.last_learning_prompt = last.now)

\* a Block at exactly one cooldown after the last prompt
C1_Witness ==
  /\ Blocked /\ Found.after_enabled /\ Found.tool_count >= 3
  /\ Found.last_learning_prompt > 0 /\ Elapsed = 900000
  /\ Kept.tool_count = 0 /\ Kept.last_learning_prompt = last.now

\* C2: an evaluation that finds toolCount >= 3 less than 900,000 ms after the last
\* prompt returns Allow and leaves the persisted state as it found it.
C2_AllowInCooldown ==
  (Evaluated /\ Found.tool_count >= 3 /\ Elapsed < 900000)
    => (Allowed /\ ~last.wrote /\ file = pre)

\* an Allow one ms before the cooldown ends, threshold met and after mode on
C2_Witness ==
  /\ Allowed /\ Found.after_enabled /\ Found.tool_count >= 3 /\ Elapsed = 899999
  /\ Kept.tool_count = Found.tool_count

\* C3: an evaluation that finds afterModeEnabled false or toolCount < 3 returns
\* Allow, whatever lastLearningPromptAt and the clock are, and writes nothing.
C3_AllowBelowThreshold ==
  (Evaluated /\ (~Found.after_enabled \/ Found.tool_count < 3))
    => (Allowed /\ ~last.wrote /\ file = pre)

\* an Allow with after mode off, the threshold met and the cooldown long over
C3_Witness ==
  /\ Allowed /\ ~Found.after_enabled /\ Found.tool_count >= 3 /\ Elapsed >= 900000
  /\ file = pre

\* C4: once an evaluation has met the threshold and been held back by the cooldown,
\* the first evaluation that finds at least 900,000 ms elapsed returns Block,
\* whatever recorder events came in between.
C4_DebtCarriesOver ==
  (Evaluated /\ last.owed /\ Elapsed >= 900000) => Blocked

\* a Block that pays a debt, with a recorder event counted since the debt arose
C4_Witness ==
  /\ Blocked /\ last.owed /\ sigSinceBlock = 0 /\ Found.tool_count = 4
  /\ Found.last_learning_prompt = T0 - 900000 + 1

\* C5: two consecutive Block decisions are at least 900,000 ms of clock apart.
C5_BlocksOneCooldownApart ==
  (Blocked /\ prevBlockAt # -1) => lastBlockAt - prevBlockAt >= 900000

\* a second Block, exactly one cooldown after the first
C5_Witness ==
  Blocked /\ prevBlockAt # -1 /\ lastBlockAt - prevBlockAt = 900000

\* C6: toolCount falls (to 0 or at all) only in an evaluation that emits Block, and
\* every Block leaves the persisted toolCount at 0.
C6_ResetExactlyOnBlock ==
  /\ Kept.tool_count < Found.tool_count => Blocked
  /\ Blocked => (last.wrote /\ Kept.tool_count = 0)

\* a Block that took toolCount from 4 to 0
C6_Witness == Blocked /\ Found.tool_count = 4 /\ Kept.tool_count = 0

\* C7: from the default state, toolCount is the number of significant tool events
\* recorded since the last Block (or since the start).
C7_CountSinceBlock == Kept.tool_count = sigSinceBlock

\* two significant events counted after a Block
C7_Witness ==
  /\ lastBlockAt # -1 /\ last.op = "record" /\ last.tool_name = "Write"
  /\ sigSinceBlock = 2 /\ Kept.tool_count = 2

\* C8: no invocation leaves lastLearningPromptAt smaller than it found it.
C8_PromptTimeMonotone == Kept.last_learning_prompt >= Found.last_learning_prompt

\* a Block that raised lastLearningPromptAt, and an evaluation that met a
\* lastLearningPromptAt ahead of the clock and left it alone
C8_Witness == Blocked /\ Kept.last_learning_prompt > Found.last_learning_prompt

C8_WitnessAhead ==
  /\ Evaluated /\ Found.tool_count >= 3 /\ Found.after_enabled
  /\ Found.last_learning_prompt > last.now

\* C9: recentConcepts never has more than 10 elements nor one identifier twice.
C9_ConceptsBounded ==
  /\ Len(Kept.concepts) <= 10 /\ NoDuplicates(Kept.concepts)
  /\ Len(Found.concepts) <= 10 /\ NoDuplicates(Found.concepts)

\* a recorder invocation that added an eleventh identifier to ten
C9_Witness ==
  /\ last.op = "record" /\ last.wrote
  /\ Len(Found.concepts) = 10 /\ Kept.concepts # Found.concepts
  /\ Len(Kept.concepts) = 10

\* C10: a recorder invocation on an event whose tool name is not Edit, Write or
\* Bash leaves the persisted state as it was and writes nothing.
C10_OtherToolsIgnored ==
  (last.op = "record" /\ last.ev_kind = "object"
     /\ last.tool_name \notin {"Edit", "Write", "Bash"})
    => (file = pre /\ ~last.wrote /\ last.status = 0)

\* a Read event met a tracker file with counts in it and left it alone
C10_Witness ==
  /\ last.op = "record" /\ last.tool_name = "Read"
  /\ pre.kind = "record" /\ Found.tool_count = 2 /\ file = pre

Recorded_ == last.op = "record" /\ last.wrote

Listed(seq, c) == \E i \in 1..Len(seq) : seq[i] = c

\* C11: a significant event whose inferred topic is already in recentConcepts
\* leaves recentConcepts as it was, in length and order; only toolCount changes.
C11_KnownTopicKeepsList ==
  (Recorded_ /\ last.concept # "" /\ Listed(Found.concepts, last.concept))
    => /\ Kept.concepts = Found.concepts
       /\ Kept = [Found EXCEPT !.tool_count = Found.tool_count + 1]

\* the topic of the event is listed, and is not the most recent entry
C11_Witness ==
  /\ Recorded_ /\ Len(Found.concepts) >= 2
  /\ last.concept = "authentication" /\ Found.concepts[Len(Found.concepts) - 1] = "authentication"
  /\ Kept.concepts = Found.concepts /\ Kept.tool_count = Found.tool_count + 1

\* C12: with 10 distinct topics listed, a significant event with a new topic
\* removes exactly the oldest entry, keeps the other nine in order, puts the new
\* topic last and leaves 10 entries.
C12_EleventhEvictsOldest ==
  (Recorded_ /\ Len(Found.concepts) = 10 /\ last.concept # ""
     /\ ~Listed(Found.concepts, last.concept))
    => /\ Len(Kept.concepts) = 10
       /\ \A i \in 1..9 : Kept.concepts[i] = Found.concepts[i + 1]
       /\ Kept.concepts[10] = last.concept

\* "c0" was evicted by "api-design"
C12_Witness ==
  /\ Recorded_ /\ Len(Found.concepts) = 10 /\ Found.concepts[1] = "c0"
  /\ last.concept = "api-design"
  /\ Kept.concepts = <<"c1", "c2", "c3", "c4", "c5", "c6", "c7", "c8", "c9", "api-design">>

ScenarioStart(t) ==
  /\ t.tool_count = 2 /\ t.after_enabled /\ t.last_learning_prompt = 0
  /\ t.concepts = <<>>

ScenarioMiddle(t) ==
  /\ t.tool_count = 3 /\ t.after_enabled /\ t.last_learning_prompt = 0
  /\ t.concepts = <<"authentication">>

\* C13: the hint of a Block is the last entry of recentConcepts, or "the task you
\* just completed" when there is none; and from {tool_count 2, after_enabled,
\* last_learning_prompt 0, concepts []} an Edit on /src/auth/login.ts gives
\* tool_count 3 and concepts ["authentication"], and the evaluation that follows
\* gives Block with hint "authentication".
C13_HintIsLatestConcept ==
  /\ Blocked =>
       last.hint = IF Len(Found.concepts) = 0 THEN "the task you just completed"
                   ELSE Found.concepts[Len(Found.concepts)]
  /\ (last.op = "record" /\ last.ev_kind = "object" /\ last.tool_name = "Edit"
        /\ last.tool_input.file_path = "/src/auth/login.ts" /\ ScenarioStart(Found))
       => ScenarioMiddle(Kept)
  /\ (Evaluated /\ ScenarioMiddle(Found))
       => (Blocked /\ last.hint = "authentication")

\* the scenario's Block
C13_Witness ==
  /\ Blocked /\ ScenarioMiddle(Found) /\ last.hint = "authentication"
  /\ Kept.tool_count = 0

\* the scenario's Edit, and a Block with nothing listed
C13_WitnessEdit ==
  /\ last.op = "record" /\ last.tool_name = "Edit" /\ ScenarioStart(Found)
  /\ ScenarioMiddle(Kept)

C13_WitnessFallback == Blocked /\ last.hint = "the task you just completed"

\* C20: on a well-formed record, a recorder invocation leaves
\* lastLearningPromptAt, afterModeEnabled and seniorModeEnabled alone, and an
\* evaluator invocation leaves recentConcepts, afterModeEnabled and
\* seniorModeEnabled alone and changes toolCount and lastLearningPromptAt only
\* when it returns Block.
C20_Frames ==
  pre.kind = "record" =>
    /\ last.op = "record" =>
         /\ Kept.last_learning_prompt = Found.last_learning_prompt
         /\ Kept.after_enabled = Found.after_enabled
         /\ Kept.senior_enabled = Found.senior_enabled
    /\ Evaluated =>
         /\ Kept.concepts = Found.concepts
         /\ Kept.after_enabled = Found.after_enabled
         /\ Kept.senior_enabled = Found.senior_enabled
         /\ ~Blocked => file = pre

\* a Block on a record with senior mode off and ten concepts listed
C20_Witness ==
  /\ Blocked /\ pre.kind = "record" /\ ~Found.senior_enabled /\ ~Kept.senior_enabled
  /\ Len(Found.concepts) = 10 /\ Kept.concepts = Found.concepts

\* a recorder invocation that changed both toolCount and recentConcepts
C20_WitnessRecorder ==
  /\ Recorded_ /\ pre.kind = "record" /\ ~Found.senior_enabled
  /\ Found.last_learning_prompt > 0 /\ Kept.concepts # Found.concepts

\* the rules a segment of TopicCases matches, by number in the order
\* unit-testing, authentication, api-design, caching, react-components, database
SegmentRules(seg) ==
  CASE seg = "Tests" -> {1} [] seg = "jwt" -> {2} [] seg = "route" -> {3}
    [] seg = "Redis" -> {4} [] seg = "user.tsx" -> {5} [] seg = "prisma" -> {6}
    [] seg = "auth_test.py" -> {1, 2} [] OTHER -> {}

RuleTopics ==
  <<"unit-testing", "authentication", "api-design", "caching", "react-components",
    "database">>

\* the topic C14 gives a case: the earliest rule some segment matches, else
\* git-workflow for a command with "git" in it, else containerization for one with
\* "docker" in it, else none ("")
ExpectedTopic(c) ==
  LET rules == SegmentRules(c.s1) \cup SegmentRules(c.s2)
  IN  IF rules # {} THEN RuleTopics[CHOOSE i \in rules : \A j \in rules : i <= j]
      ELSE IF c.command \in {"git commit -m x", "docker build github.com/x"}
      THEN "git-workflow"
      ELSE IF c.command = "docker ps" THEN "containerization"
      ELSE ""

\* C14: the inferred topic is that of the earliest matching path rule; the command
\* is consulted only when no path rule matches (git, else docker); and when
\* nothing matches there is no topic and nothing is added to recentConcepts.
C14_FirstMatchWins ==
  Recorded_ =>
    \A c \in TopicCases :
      last.tool_input = CaseInput(c) =>
        /\ last.concept = ExpectedTopic(c)
        /\ Kept.concepts =
             IF ExpectedTopic(c) = "" \/ Listed(Found.concepts, ExpectedTopic(c))
             THEN Found.concepts
             ELSE Append(Found.concepts, ExpectedTopic(c))

\* a path that matches the api rule and the .tsx rule gives api-design
C14_Witness ==
  /\ Recorded_ /\ last.tool_input.path = "/route/user.tsx"
  /\ last.tool_input.command = "docker ps" /\ last.concept = "api-design"

\* no rule and no command match: no topic, list untouched
C14_WitnessNone ==
  /\ Recorded_ /\ last.tool_input.file_path = "/main.py/" /\ last.tool_input.path = "jwt.ts"
  /\ last.tool_input.command = "GIT status" /\ last.concept = ""
  /\ Kept.concepts = <<"api-design">>

\* C15: every hook invocation ends with exit status 0, whatever the event input
\* and whatever the condition of the tracker file.
C15_AlwaysCleanExit == last.status = 0

\* C16: on an event input that is no JSON the recorder leaves the persisted state
\* as it was and ends without an error.
C16_MalformedEventIgnored ==
  (last.op = "record" /\ last.ev_kind = "malformed")
    => (file = pre /\ ~last.wrote /\ last.status = 0)

\* malformed input met a record that is due for a prompt
C16_Witness ==
  /\ last.op = "record" /\ last.ev_kind = "malformed"
  /\ pre.kind = "record" /\ Found.tool_count >= 3 /\ file = pre

\* malformed input met an unparseable tracker file
C16_WitnessCorrupt ==
  last.op = "record" /\ last.ev_kind = "malformed" /\ file.kind = "corrupt"

NoUsableFile(f) == f.kind \in {"missing", "corrupt"}

\* C17: on a missing or unparseable tracker file each hook acts as on the defaults
\* (toolCount 0, lastLearningPromptAt 0, both modes on, no concepts): the evaluator
\* returns Allow and writes nothing, and the recorder, given a significant event
\* and a file it can write, persists the defaults with toolCount 1 and
\* recentConcepts holding the inferred topic, if there is one, and nothing else.
C17_DefaultsWhenNoFile ==
  NoUsableFile(pre) =>
    /\ Evaluated => (Allowed /\ ~last.wrote /\ file = pre)
    /\ (last.op = "record" /\ last.ev_kind = "object" /\ writable
          /\ last.tool_name \in {"Edit", "Write", "Bash"})
         => /\ last.wrote /\ last.status = 0 /\ file.kind = "record"
            /\ file.data =
                 [tool_count |-> 1, last_learning_prompt |-> 0,
                  senior_enabled |-> TRUE, after_enabled |-> TRUE,
                  concepts |-> IF last.concept = "" THEN <<>> ELSE <<last.concept>>]

\* the recorder replaced an unparseable file by the defaults plus one event
C17_Witness ==
  /\ last.op = "record" /\ pre.kind = "corrupt" /\ file.kind = "record"
  /\ Kept.tool_count = 1 /\ Kept.concepts = <<"authentication">>

\* the evaluator met an unparseable file, and a missing one
C17_WitnessEvaluator == Evaluated /\ pre.kind = "corrupt" /\ Allowed /\ file = pre

C17_WitnessMissing == Evaluated /\ pre.kind = "missing" /\ Allowed /\ file = pre

\* the persisted counter and stamp account for every invocation that has ended
NothingLost ==
  /\ TrackerOf(file).tool_count = sigSinceBlock
  /\ TrackerOf(file).last_learning_prompt = IF lastBlockAt = -1 THEN 0 ELSE lastBlockAt

\* C18: as long as no hook process begins while another is between its load and
\* its save, no update is lost: starting from the defaults the persisted toolCount
\* is the number of significant events since the latest Block and the persisted
\* lastLearningPromptAt is the time of the latest Block. (That processes which do
\* overlap can lose an update is what the witnesses show.)
C18_NoLossWhenSerial == ~overlapped => NothingLost

\* two overlapping recorders: two significant events raised toolCount by only 1
C18_Witness ==
  /\ overlapped /\ last.op = "record" /\ lastBlockAt = -1
  /\ sigSinceBlock = 2 /\ TrackerOf(file).tool_count = 1

\* a recorder that loaded before a Block saved after it: the Block's reset of
\* toolCount and its lastLearningPromptAt are overwritten
C18_WitnessStaleWrite ==
  /\ overlapped /\ last.op = "record" /\ last.wrote /\ lastBlockAt >= T0
  /\ sigSinceBlock = 1
  /\ TrackerOf(file).tool_count = 4
  /\ TrackerOf(file).last_learning_prompt = 0

\* one process at a time: events, a Block, and an event after it, nothing lost
C18_WitnessSerial ==
  /\ ~overlapped /\ last.op = "record" /\ last.wrote /\ lastBlockAt >= T0
  /\ sigSinceBlock = 1 /\ NothingLost

\* the topics the claim names
EightTopics ==
  {"unit-testing", "authentication", "api-design", "caching", "react-components",
   "database", "git-workflow", "containerization"}

\* seq begins with the whole of head
StartsWith(seq, head) ==
  Len(head) <= Len(seq) /\ SubSeq(seq, 1, Len(head)) = head

\* C19: in every run from the defaults recentConcepts holds only the eight topics
\* the recorder can infer, so it has at most 8 entries, and no invocation removes
\* or moves an entry: the list an invocation found is the beginning of the list
\* it leaves (the eviction is never carried out).
C19_OnlyEightTopics ==
  /\ \A i \in 1..Len(Kept.concepts) : Kept.concepts[i] \in EightTopics
  /\ Len(Kept.concepts) <= 8
  /\ StartsWith(Kept.concepts, Found.concepts)
  /\ last.concept \in EightTopics \cup {None}

\* all eight topics are listed and a further event with a topic was recorded
C19_Witness ==
  /\ Recorded_ /\ last.concept # None
  /\ Len(Found.concepts) = 8 /\ Kept.concepts = Found.concepts

\* five topics were listed one after the other in a run from the defaults
C19_WitnessFromDefaults ==
  /\ Recorded_ /\ Len(Kept.concepts) = 5 /\ Kept.tool_count = 5
  /\ Kept.last_learning_prompt = 0

\* the evaluator blocked with all eight topics listed
C19_WitnessEvaluator == Blocked /\ Len(Kept.concepts) = 8

=============================================================================
